---- MODULE Spec2Model ----
(***************************************************************************)
(* Model of the note filtering pipeline of simplenote-electron:            *)
(*   - src/lib/search/index.ts      the search middleware (coordinator)    *)
(*   - src/lib/note-list/index.tsx  the NoteList component                 *)
(*                                                                         *)
(* SpecMW is the state machine of one middleware instance, SpecNL the one  *)
(* of one mounted NoteList component, SpecCL the projection of the store   *)
(* to the rows of the list (createCompositeNoteList) and SpecRH the row    *)
(* height cache (getRowHeight, previewCache).  SpecFC and SpecRP are the   *)
(* middleware together with the worker it talks to: SpecFC follows the     *)
(* filter context the posted commands build up, SpecRP the replies in      *)
(* flight and the filtered list the store ends up with.                    *)
(***************************************************************************)
EXTENDS Integers, Sequences, FiniteSets, TLC

VARIABLES
    \* ---- search middleware (src/lib/search/index.ts) ----
    appNotes,        \* store.getState().appState.notes : Null or a list of notes
    hasInitialized,  \* the closure variable of the middleware
    loads,           \* number of App.notesLoaded actions handled so far (counted in SpecMW)
    inbox,           \* messages in flight from the worker to searchProcessor
    call,            \* the action / message the last handler ran for
    events,          \* what the last handler did, in order: next, post, dispatch
    \* ---- NoteList component (src/lib/note-list/index.tsx) ----
    selected,        \* this.state.selected : {noteId, index}
    props,           \* this.props : notes, selectedNote, showTrash, openedTag
    shortcut,        \* the keyboard event the last handleShortcut call received
    effects,         \* what the last component method did
    \* ---- rows of the list (src/lib/note-list/index.tsx) ----
    composite,       \* the last createCompositeNoteList call: arguments, result
    previewCache,    \* the module's previewCache : id -> [width, display, preview, height]
    lookup,          \* the last getRowHeight call: arguments, result, whether f ran
    lastFor,         \* per id, the arguments of the last getRowHeight call for it
    \* ---- the worker and the store, as a session goes on ----
    context,         \* the worker's filter context: openedTag, showTrash, searchQuery
    sent,            \* number of filterNotes commands posted so far
    pending,         \* the numbers of the commands not answered yet
    filteredNotes    \* ui.filteredNotes with its selection hint, as last dispatched

mwVars == <<appNotes, hasInitialized, loads, inbox, call, events>>
nlVars == <<selected, props, shortcut, effects>>
rowVars == <<composite, previewCache, lookup, lastFor>>
sessionVars == <<context, sent, pending, filteredNotes>>
\* what the middleware's handlers, and the component's, leave alone
notMW == <<nlVars, rowVars, sessionVars>>
notNL == <<mwVars, rowVars, sessionVars>>
vars == <<appNotes, hasInitialized, loads, inbox, call, events,
          selected, props, shortcut, effects,
          composite, previewCache, lookup, lastFor,
          context, sent, pending, filteredNotes>>

(***************************************************************************)
(* Bounds                                                                  *)
(***************************************************************************)
\* note ids are 1..MaxNotes, and a list holds at most MaxNotes notes
MaxNotes == 2
\* App.notesLoaded actions handled in one session
MaxLoads == 2
\* replies in flight from the worker
MaxInbox == 1
\* rows of the filtered list handed to the NoteList component, whose note
\* ids are 1..MaxRows
MaxRows == 2

(***************************************************************************)
(* Values                                                                  *)
(***************************************************************************)
\* JavaScript null / undefined, and a present optional value
Null == <<>>
Some(v) == <<v>>

NoteIds == 1..MaxNotes
NoteData == {"d1", "d2"}
TagNames == {"t1", "t2"}
Queries == {"", "cat"}

\* T.NoteEntity
NoteEntity == [id : NoteIds, data : NoteData]

\* lists of notes with pairwise different ids
NoteLists ==
    {l \in UNION {[1..n -> NoteEntity] : n \in 0..MaxNotes} :
        \A i, j \in DOMAIN l : l[i].id = l[j].id => i = j}

\* const emptyList = [] as T.NoteEntity[]
emptyList == <<>>

(***************************************************************************)
(* The rows of the list, src/lib/note-list/index.tsx lines 312-326         *)
(*                                                                         *)
(* A row is a note or one of three synthetic rows.  The code marks the     *)
(* synthetic rows by strings; here they are records with the one field     *)
(* `row`, so that a note is never equal to one of them.                    *)
(***************************************************************************)
MaxTags == 2

\* tagResultsFound = getMatchingTags(state.tags, searchQuery).length
TagCounts == 0..MaxTags

TagSuggestionsRow == [row |-> "tag-suggestions"]
NotesHeaderRow == [row |-> "notes-header"]
NoNotesRow == [row |-> "no-notes"]
SyntheticRows == {TagSuggestionsRow, NotesHeaderRow, NoNotesRow}

\* searchQuery.length
length(searchQuery) == IF searchQuery = "" THEN 0 ELSE Len(searchQuery)

createCompositeNoteList_always(notes, searchQuery, tagResultsFound) ==
    <<TagSuggestionsRow, NotesHeaderRow>>
        \o (IF Len(notes) > 0 THEN notes ELSE <<NoNotesRow>>)

createCompositeNoteList_noPlaceholder(notes, searchQuery, tagResultsFound) ==
    IF length(searchQuery) = 0 \/ tagResultsFound = 0
    THEN notes
    ELSE <<TagSuggestionsRow, NotesHeaderRow>> \o notes

\* lines 316-326
createCompositeNoteList(notes, searchQuery, tagResultsFound) ==
    IF length(searchQuery) = 0 \/ tagResultsFound = 0
    THEN notes
    ELSE <<TagSuggestionsRow, NotesHeaderRow>>
            \o (IF Len(notes) > 0 THEN notes ELSE <<NoNotesRow>>)

(***************************************************************************)
(* Row heights, src/lib/note-list/index.tsx lines 93-210                   *)
(*                                                                         *)
(* A JavaScript number is Num(n), NaN or Infinity: the division of line    *)
(* 195 produces all three.  Lengths are whole pixels.                      *)
(***************************************************************************)
Num(n) == [num |-> n]
NaN == [nan |-> TRUE]
Infinity == [inf |-> TRUE]

\* Math.min on integers
Min(a, b) == IF a <= b THEN a ELSE b

ROW_HEIGHT_BASE == 24 + 18
ROW_HEIGHT_LINE == 21
maxPreviewLines == [comfy |-> 1, condensed |-> 0, expanded |-> 4]
HEADER_HEIGHT == 28
TAG_ROW_HEIGHT == 40
EMPTY_DIV_HEIGHT == 200

NoteDisplays == {"comfy", "condensed", "expanded"}

\* widths of the list's container, in pixels: a collapsed container, the
\* width that makes the divisor of line 195 zero, and an ordinary one
Widths == {0, 24, 74}

\* note.data of a note of the list, and the preview derived from it
Contents == {"empty", "lorem"}
getNoteTitleAndPreview(note) ==
    [preview |-> IF note.data = "empty" THEN "" ELSE "lorem ipsum"]

\* context.measureText(text).width with the font '16px arial'
measureText(text) == IF text = "" THEN 0 ELSE 100

\* lines 123-131: canvas.width = width has no effect on the measure
getTextWidth(text, width) == measureText(text)

\* Math.ceil(a / b) for a >= 0
ceilOfQuotient(a, b) ==
    CASE b = 0 /\ a = 0 -> NaN
      [] b = 0 /\ a > 0 -> Infinity
      [] b > 0 -> Num((a + b - 1) \div b)
      [] b < 0 -> Num(0 - (a \div (0 - b)))

\* Math.min(m, x) for an integer m
mathMin(m, x) ==
    CASE x = NaN -> NaN
      [] x = Infinity -> Num(m)
      [] OTHER -> Num(Min(m, x.num))

\* ROW_HEIGHT_BASE + ROW_HEIGHT_LINE * x
baseAndLines(x) ==
    IF x = NaN THEN NaN ELSE Num(ROW_HEIGHT_BASE + ROW_HEIGHT_LINE * x.num)

\* lines 190-200
computeRowHeight(width, noteDisplay, preview) ==
    IF noteDisplay = "condensed"
    THEN Num(ROW_HEIGHT_BASE)
    ELSE LET lines == ceilOfQuotient(getTextWidth(preview, width - 24),
                                     width - 24)
         IN baseAndLines(mathMin(maxPreviewLines[noteDisplay], lines))

\* the notes of the list whose heights are looked up
HeightNotes == [id : NoteIds, data : Contents]

\* Map.get(key) is Null (undefined) or Some of the stored
\* [width, noteDisplay, preview, height]
EmptyCache == [id \in NoteIds |-> Null]

\* the result of one call: the height returned, the cache it leaves and
\* whether f was invoked
HeightResult(height, cache, computed) ==
    [height |-> height, cache |-> cache, computed |-> computed]

\* lines 142-180, rowHeightCache(f)(notes, options)({index}), for the one f
\* the module passes: computeRowHeight (line 210); index counts from 1 here
rowHeightCache(cache, notes, options, index) ==
    LET note == notes[index] IN
    CASE note = NotesHeaderRow ->
            HeightResult(Num(HEADER_HEIGHT), cache, FALSE)
      [] note = TagSuggestionsRow ->
            HeightResult(Num(HEADER_HEIGHT
                             + TAG_ROW_HEIGHT * options.tagResultsFound),
                         cache, FALSE)
      [] note = NoNotesRow ->
            HeightResult(Num(EMPTY_DIV_HEIGHT), cache, FALSE)
      [] OTHER ->
            LET preview == getNoteTitleAndPreview(note).preview
                key == note.id
                cached == cache[key]
                hit == /\ cached # Null
                       /\ cached[1].width = options.width
                       /\ cached[1].noteDisplay = options.noteDisplay
                       /\ cached[1].preview = preview
                height == computeRowHeight(options.width, options.noteDisplay,
                                          preview)
            IN IF hit
               THEN HeightResult(cached[1].height, cache, FALSE)
               ELSE HeightResult(height,
                        [cache EXCEPT ![key] =
                            Some([width |-> options.width,
                                  noteDisplay |-> options.noteDisplay,
                                  preview |-> preview,
                                  height |-> height])],
                        TRUE)

\* getRowHeight with a cache keyed on the id alone: a stored height is
\* returned whatever the width, display mode and preview it was computed for
getRowHeight_keyOnly(cache, notes, options, index) ==
    LET note == notes[index] IN
    IF note \notin SyntheticRows /\ cache[note.id] # Null
    THEN HeightResult(cache[note.id][1].height, cache, FALSE)
    ELSE rowHeightCache(cache, notes, options, index)

\* getRowHeight without line 177: nothing is ever stored
getRowHeight_noStore(cache, notes, options, index) ==
    LET r == rowHeightCache(cache, notes, options, index)
    IN HeightResult(r.height, cache, r.computed)

\* line 210
getRowHeight(cache, notes, options, index) ==
    rowHeightCache(cache, notes, options, index)

\* the options of a getRowHeight call
HeightOptions ==
    [noteDisplay : NoteDisplays, tagResultsFound : TagCounts, width : Widths]

\* no getRowHeight call is running
NoLookup == [row |-> Null]

\* no createCompositeNoteList call has been made
NoComposite == [notes |-> <<>>, searchQuery |-> "", tagResultsFound |-> 0,
                rows |-> Null]

\* the module is loaded: previewCache = new Map(), line 134
NoRows ==
    /\ composite = NoComposite
    /\ previewCache = EmptyCache
    /\ lookup = NoLookup
    /\ lastFor = EmptyCache

\* the worker's filter context before any command: all notes, no query
NoFilter == [openedTag |-> Null, showTrash |-> FALSE, searchQuery |-> ""]

\* a session that has not started: nothing posted, nothing dispatched
NoSession ==
    /\ context = NoFilter
    /\ sent = 0
    /\ pending = {}
    /\ filteredNotes = Null

(***************************************************************************)
(* The store and the worker, as the middleware sees them                   *)
(*                                                                         *)
(* A note of appState.notes is modelled by its id: it is the only field    *)
(* of a stored note the middleware reads.                                  *)
(***************************************************************************)
\* lists of pairwise different note ids
IdLists ==
    {l \in UNION {[1..n -> NoteIds] : n \in 0..MaxNotes} :
        \A i, j \in DOMAIN l : l[i] = l[j] => i = j}

\* the ids of a list of notes, in order
Ids(notes) == [i \in DOMAIN notes |-> notes[i].id]

\* a list without its i-th element
RemoveAt(list, i) ==
    [k \in 1..(Len(list) - 1) |-> IF k < i THEN list[k] ELSE list[k + 1]]

\* result = next(action): the values appState.notes can have once the
\* reducers have handled the action (the reducers are not part of the
\* middleware; only their effect on the note list is modelled)
next(action, notes) ==
    CASE action.type = "App.notesLoaded" -> {Ids(action.notes)}
      [] action.type = "REMOTE_NOTE_UPDATE" ->
            IF notes = Null THEN {notes}
            ELSE IF \E i \in DOMAIN notes : notes[i] = action.noteId THEN {notes}
            ELSE IF Len(notes) < MaxNotes THEN {<<action.noteId>> \o notes}
            ELSE {notes}
      [] action.type = "DELETE_NOTE_FOREVER" ->
            IF notes = Null THEN {notes}
            ELSE {notes} \cup {RemoveAt(notes, i) : i \in DOMAIN notes}
      [] action.type = "App.authChanged" -> {notes, Null}
      [] OTHER -> {notes}

\* updateFilter('fullSearch'): the sets of ids the synchronous full search
\* of the worker module can return
updateFilter == SUBSET NoteIds

\* messages the worker can put on the channel towards searchProcessor
WorkerMessages ==
    [action : {"filterNotes"}, noteIds : SUBSET NoteIds]
    \cup {[action |-> "unknown"]}

(***************************************************************************)
(* src/lib/search/index.ts                                                 *)
(*                                                                         *)
(* A handler's effects are logged in order in ev: the call of next, the    *)
(* messages posted on the channel, the actions dispatched to the store.    *)
(***************************************************************************)
\* searchProcessor.postMessage(msg)
postMessage(ev, msg) == Append(ev, [kind |-> "post", msg |-> msg])

\* setFilteredNotes building the list in the order the ids come out of the
\* Set instead of the store's order
setFilteredNotes_indexerOrder(ev, notes, noteIds, previousIndex) ==
    LET live == IF notes = Null THEN {} ELSE {notes[i] : i \in DOMAIN notes}
        RECURSIVE descending(_)
        descending(S) ==
            IF S = {} THEN <<>>
            ELSE LET m == CHOOSE x \in S : \A y \in S : y <= x
                 IN  <<m>> \o descending(S \ {m})
    IN  Append(ev, [kind |-> "dispatch",
                    list |-> descending(noteIds \cap live),
                    previousIndex |-> previousIndex])

\* setFilteredNotes(noteIds, previousIndex), lines 16-27: dispatches
\* actions.ui.filterNotes(appState.notes?.filter(...) || emptyList, previousIndex);
\* notes is appState.notes as store.getState() returns it
setFilteredNotes(ev, notes, noteIds, previousIndex) ==
    Append(ev, [kind |-> "dispatch",
                list |-> IF notes = Null
                         THEN emptyList
                         ELSE SelectSeq(notes, LAMBDA id : id \in noteIds),
                previousIndex |-> previousIndex])

\* onmessage keeping the newest result: a reply to a command older than
\* the one whose reply is on display is discarded
onmessage_newestOnly(ev, notes, data) ==
    IF /\ data.action = "filterNotes"
       /\ (filteredNotes = Null \/ data.re >= filteredNotes[1].from)
    THEN setFilteredNotes(ev, notes, data.noteIds, Null)
    ELSE ev

\* onmessage taking a message it does not know for an empty result
onmessage_unknownClears(ev, notes, data) ==
    IF data.action = "filterNotes"
    THEN setFilteredNotes(ev, notes, data.noteIds, Null)
    ELSE setFilteredNotes(ev, notes, {}, Null)

\* searchProcessor.onmessage, lines 29-36
onmessage(ev, notes, data) ==
    IF data.action = "filterNotes"
    THEN setFilteredNotes(ev, notes, data.noteIds, Null)
    ELSE ev

\* const result = next(action), line 42
called_never == <<>>

called == <<[kind |-> "next"]>>

\* what next(action) returns: the action, as the store's own dispatch does,
\* or undefined from a middleware further down the chain
nextResult(action) == {Some(action), Null}

\* a handler returning nothing
returned_undefined(result) == Null

\* return result, line 109: the value of line 42, whichever case ran
returned(result) == result

\* action.notes.forEach(note => searchProcessor.postMessage({...})), lines 47-53
postNotes(ev, notes) ==
    ev \o [i \in 1..Len(notes) |->
              [kind |-> "post",
               msg |-> [action |-> "updateNote",
                        noteId |-> notes[i].id,
                        data |-> notes[i].data]]]

\* case 'App.notesLoaded' without the one-shot guard
notesLoaded_noGuard(ev, initialized, action) ==
    postMessage(postNotes(ev, action.notes), [action |-> "filterNotes"])

\* case 'App.notesLoaded' asking for the filtered list before it has sent
\* the notes
notesLoaded_filterFirst(ev, initialized, action) ==
    LET asked == postMessage(ev, [action |-> "filterNotes"])
    IN  IF ~initialized THEN postNotes(asked, action.notes) ELSE asked

\* case 'App.notesLoaded', lines 45-58: what it posts; initialized is
\* hasInitialized as the handler finds it
notesLoaded(ev, initialized, action) ==
    postMessage(IF ~initialized THEN postNotes(ev, action.notes) ELSE ev,
                [action |-> "filterNotes"])

\* case 'REMOTE_NOTE_UPDATE', lines 60-66
remoteNoteUpdate(ev, action) ==
    postMessage(ev, [action |-> "updateNote",
                     noteId |-> action.noteId,
                     data |-> action.data])

\* case 'OPEN_TAG', lines 68-73
openTag(ev, action) ==
    postMessage(ev, [action |-> "filterNotes",
                     openedTag |-> Some(action.tag.data.name)])

\* case 'SELECT_TRASH' posting the command of SHOW_ALL_NOTES
selectTrash_showAll(ev) ==
    postMessage(ev, [action |-> "filterNotes", openedTag |-> Null, showTrash |-> FALSE])

\* case 'SELECT_TRASH', lines 75-81
selectTrash(ev) ==
    postMessage(ev, [action |-> "filterNotes", openedTag |-> Null, showTrash |-> TRUE])

\* case 'SHOW_ALL_NOTES', lines 83-89
showAllNotes(ev) ==
    postMessage(ev, [action |-> "filterNotes", openedTag |-> Null, showTrash |-> FALSE])

\* case 'SEARCH' that also clears the list on display while the worker
\* searches
search_clearsList(ev, action) ==
    Append(postMessage(ev, [action |-> "filterNotes",
                            searchQuery |-> action.searchQuery]),
           [kind |-> "dispatch", list |-> emptyList, previousIndex |-> Null])

\* case 'SEARCH', lines 91-96
search(ev, action) ==
    postMessage(ev, [action |-> "filterNotes", searchQuery |-> action.searchQuery])

\* the synchronous rebuild dropping the selection hint
syncRebuild_noHint(ev, notes, fullSearch, action) ==
    setFilteredNotes(ev, notes, fullSearch, Null)

\* case 'DELETE_NOTE_FOREVER' / 'RESTORE_NOTE' / 'TRASH_NOTE', lines 98-102;
\* fullSearch is what updateFilter('fullSearch') returned
syncRebuild(ev, notes, fullSearch, action) ==
    setFilteredNotes(ev, notes, fullSearch, action.previousIndex)

\* case 'App.authChanged' passing on the selection hint of the list on
\* display
authChanged_lastHint(ev, notes, fullSearch) ==
    setFilteredNotes(ev, notes, fullSearch,
                     IF filteredNotes = Null THEN Null
                     ELSE filteredNotes[1].previousIndex)

\* case 'App.authChanged', lines 104-106
authChanged(ev, notes, fullSearch) ==
    setFilteredNotes(ev, notes, fullSearch, Null)

\* the actions the synchronous full search runs for
RebuildTypes == {"DELETE_NOTE_FOREVER", "RESTORE_NOTE", "TRASH_NOTE"}

\* next => action => {...}, lines 41-110, as one function: what the
\* handler does for `action` when it finds hasInitialized = initialized;
\* store is appState.notes once next(action) has run, fullSearch what
\* updateFilter('fullSearch') returns in the two cases that call it
middleware(initialized, action, store, fullSearch) ==
    CASE action.type = "App.notesLoaded" ->
            notesLoaded(called, initialized, action)
      [] action.type = "REMOTE_NOTE_UPDATE" -> remoteNoteUpdate(called, action)
      [] action.type = "OPEN_TAG" -> openTag(called, action)
      [] action.type = "SELECT_TRASH" -> selectTrash(called)
      [] action.type = "SHOW_ALL_NOTES" -> showAllNotes(called)
      [] action.type = "SEARCH" -> search(called, action)
      [] action.type \in RebuildTypes ->
            syncRebuild(called, store, fullSearch[1], action)
      [] action.type = "App.authChanged" ->
            authChanged(called, store, fullSearch[1])
      [] OTHER -> called

(***************************************************************************)
(* The middleware as a state machine: one step per handled action or       *)
(* received message, each the whole handler (lines 41-110, lines 29-36),   *)
(* and one step for the handler's return to the event loop.                *)
(***************************************************************************)
\* action.previousIndex: a list index, or undefined
PreviousIndexes == {Null} \cup {Some(i) : i \in 0..(MaxNotes - 1)}

\* no handler is running
NoCall == [action |-> [type |-> "@@idle"], fullSearch |-> Null]

\* the middleware right after store => { ... }, lines 10-39; no component
InitMW ==
    /\ appNotes = Null
    /\ hasInitialized = FALSE
    /\ loads = 0
    /\ inbox = <<>>
    /\ call = NoCall
    /\ events = <<>>
    /\ selected = [noteId |-> Null, index |-> Null]
    /\ props = Null
    /\ shortcut = Null
    /\ effects = [method |-> "idle"]
    /\ NoRows
    /\ NoSession

\* the handler ran for `action`; the store is what next(action) left
Handled(action, store, fullSearch, ev) ==
    /\ appNotes' = store
    /\ \E result \in nextResult(action) :
        call' = [action |-> action, fullSearch |-> fullSearch,
                 result |-> result, returned |-> returned(result)]
    /\ events' = ev

AppNotesLoaded ==
    /\ call = NoCall
    /\ loads < MaxLoads
    /\ \E notes \in NoteLists :
        LET action == [type |-> "App.notesLoaded", notes |-> notes] IN
        \E store \in next(action, appNotes) :
            /\ loads' = loads + 1
            /\ hasInitialized' = TRUE
            /\ Handled(action, store, Null,
                       notesLoaded(called, hasInitialized, action))
            /\ UNCHANGED <<inbox>>
            /\ UNCHANGED notMW

RemoteNoteUpdate ==
    /\ call = NoCall
    /\ \E noteId \in NoteIds, data \in NoteData :
        LET action == [type |-> "REMOTE_NOTE_UPDATE",
                       noteId |-> noteId, data |-> data] IN
        \E store \in next(action, appNotes) :
            /\ Handled(action, store, Null, remoteNoteUpdate(called, action))
            /\ UNCHANGED <<hasInitialized, loads, inbox>>
            /\ UNCHANGED notMW

OpenTag ==
    /\ call = NoCall
    /\ \E name \in TagNames :
        LET action == [type |-> "OPEN_TAG", tag |-> [data |-> [name |-> name]]] IN
        \E store \in next(action, appNotes) :
            /\ Handled(action, store, Null, openTag(called, action))
            /\ UNCHANGED <<hasInitialized, loads, inbox>>
            /\ UNCHANGED notMW

SelectTrash ==
    /\ call = NoCall
    /\ LET action == [type |-> "SELECT_TRASH"] IN
       \E store \in next(action, appNotes) :
        /\ Handled(action, store, Null, selectTrash(called))
        /\ UNCHANGED <<hasInitialized, loads, inbox>>
        /\ UNCHANGED notMW

ShowAllNotes ==
    /\ call = NoCall
    /\ LET action == [type |-> "SHOW_ALL_NOTES"] IN
       \E store \in next(action, appNotes) :
        /\ Handled(action, store, Null, showAllNotes(called))
        /\ UNCHANGED <<hasInitialized, loads, inbox>>
        /\ UNCHANGED notMW

Search ==
    /\ call = NoCall
    /\ \E searchQuery \in Queries :
        LET action == [type |-> "SEARCH", searchQuery |-> searchQuery] IN
        \E store \in next(action, appNotes) :
            /\ Handled(action, store, Null, search(called, action))
            /\ UNCHANGED <<hasInitialized, loads, inbox>>
            /\ UNCHANGED notMW

SyncRebuild ==
    /\ call = NoCall
    /\ \E type \in {"DELETE_NOTE_FOREVER", "RESTORE_NOTE", "TRASH_NOTE"},
          previousIndex \in PreviousIndexes,
          fullSearch \in updateFilter :
        LET action == [type |-> type, previousIndex |-> previousIndex] IN
        \E store \in next(action, appNotes) :
            /\ Handled(action, store, Some(fullSearch),
                       syncRebuild(called, store, fullSearch, action))
            /\ UNCHANGED <<hasInitialized, loads, inbox>>
            /\ UNCHANGED notMW

AuthChanged ==
    /\ call = NoCall
    /\ \E fullSearch \in updateFilter :
        LET action == [type |-> "App.authChanged"] IN
        \E store \in next(action, appNotes) :
            /\ Handled(action, store, Some(fullSearch),
                       authChanged(called, store, fullSearch))
            /\ UNCHANGED <<hasInitialized, loads, inbox>>
            /\ UNCHANGED notMW

\* an action type with no case in the switch, lines 44-107
OtherAction ==
    /\ call = NoCall
    /\ LET action == [type |-> "OTHER"] IN
       \E store \in next(action, appNotes) :
        /\ Handled(action, store, Null, called)
        /\ UNCHANGED <<hasInitialized, loads, inbox>>
        /\ UNCHANGED notMW

\* the worker puts a message on the channel
WorkerPost ==
    /\ call = NoCall
    /\ Len(inbox) < MaxInbox
    /\ \E msg \in WorkerMessages :
        /\ inbox' = Append(inbox, msg)
        /\ UNCHANGED <<appNotes, hasInitialized, loads, call, events>>
        /\ UNCHANGED notMW

\* searchProcessor.onmessage runs for the oldest message in flight
OnMessage ==
    /\ call = NoCall
    /\ inbox # <<>>
    /\ inbox' = Tail(inbox)
    /\ call' = [action |-> [type |-> "@@message", data |-> Head(inbox)],
                fullSearch |-> Null]
    /\ events' = onmessage(<<>>, appNotes, Head(inbox))
    /\ UNCHANGED <<appNotes, hasInitialized, loads>>
    /\ UNCHANGED notMW

\* the handler returns to the event loop
ReturnMW ==
    /\ call # NoCall
    /\ call' = NoCall
    /\ events' = <<>>
    /\ UNCHANGED <<appNotes, hasInitialized, loads, inbox>>
    /\ UNCHANGED notMW

NextMW ==
    \/ AppNotesLoaded
    \/ RemoteNoteUpdate
    \/ OpenTag
    \/ SelectTrash
    \/ ShowAllNotes
    \/ Search
    \/ SyncRebuild
    \/ AuthChanged
    \/ OtherAction
    \/ WorkerPost
    \/ OnMessage
    \/ ReturnMW

(***************************************************************************)
(* src/lib/note-list/index.tsx: the NoteList component                     *)
(*                                                                         *)
(* A row of props.notes is modelled by its id; NoId is a row without a     *)
(* valid identifier (item?.id is falsy).                                   *)
(***************************************************************************)
NoId == 0
RowIds == 1..MaxRows

\* props.notes: rows with pairwise different valid ids
RowLists ==
    {l \in UNION {[1..n -> RowIds \cup {NoId}] : n \in 0..MaxRows} :
        \A i, j \in DOMAIN l : (l[i] = l[j] /\ l[i] # NoId) => i = j}

\* the props the component reads
Props ==
    [notes : RowLists,
     selectedNote : {Null} \cup {Some(id) : id \in RowIds},
     showTrash : BOOLEAN,
     openedTag : {Null, Some("t1")}]

\* keydown events
KeyEvents ==
    [ctrlKey : BOOLEAN, metaKey : BOOLEAN, shiftKey : BOOLEAN,
     key : {"ArrowUp", "ArrowDown", "k", "J", "x"}]

\* key.toLowerCase()
toLowerCase(key) == IF key = "J" THEN "j" ELSE IF key = "K" THEN "k" ELSE key

\* ToNumber of an index that may be null
ToNumber(index) == IF index = Null THEN 0 ELSE index[1]

\* JavaScript truthiness of an index that may be null: null and 0 are falsy
Truthy(index) == index # Null /\ index[1] # 0

\* notes[k]?.id for a number k: NoId when there is no such row
idAt(notes, k) == IF k >= 0 /\ k < Len(notes) THEN notes[k + 1] ELSE NoId

\* notes[index]?.id for an index that may be null (notes[null] is undefined)
idAtIndex(notes, index) == IF index = Null THEN NoId ELSE idAt(notes, index[1])

\* notes.findIndex(item => item?.id)
findFirstWithId(notes) ==
    IF \E k \in 0..(Len(notes) - 1) : idAt(notes, k) # NoId
    THEN CHOOSE k \in 0..(Len(notes) - 1) :
            /\ idAt(notes, k) # NoId
            /\ \A j \in 0..(k - 1) : idAt(notes, j) = NoId
    ELSE -1

\* notes.findIndex(item => item?.id === id)
findIndexOfId(notes, id) ==
    IF \E k \in 0..(Len(notes) - 1) : idAt(notes, k) = id
    THEN CHOOSE k \in 0..(Len(notes) - 1) :
            /\ idAt(notes, k) = id
            /\ \A j \in 0..(k - 1) : idAt(notes, j) # id
    ELSE -1

\* getHighlightedIndex without the scan of line 503: a selected note that
\* is not at the recorded index falls to the positional fallback
getHighlightedIndex_noScan(p, sel) ==
    LET notes == p.notes
        selectedNote == p.selectedNote
        index == sel.index
    IN  IF Len(notes) = 0 THEN Null
        ELSE IF selectedNote = Null /\ ~Truthy(index)
        THEN IF findFirstWithId(notes) > -1 THEN Some(findFirstWithId(notes)) ELSE Null
        ELSE IF selectedNote # Null /\ selectedNote[1] = idAtIndex(notes, index)
        THEN index
        ELSE IF selectedNote # Null
        THEN Some(Min(ToNumber(index), Len(notes) - 1))
        ELSE index

\* getHighlightedIndex returning the recorded index unclamped at line 510
getHighlightedIndex_noClamp(p, sel) ==
    LET notes == p.notes
        selectedNote == p.selectedNote
        index == sel.index
    IN  IF Len(notes) = 0 THEN Null
        ELSE IF selectedNote = Null /\ ~Truthy(index)
        THEN IF findFirstWithId(notes) > -1 THEN Some(findFirstWithId(notes)) ELSE Null
        ELSE IF selectedNote # Null /\ selectedNote[1] = idAtIndex(notes, index)
        THEN index
        ELSE IF selectedNote # Null /\ findIndexOfId(notes, selectedNote[1]) > -1
        THEN Some(findIndexOfId(notes, selectedNote[1]))
        ELSE Some(ToNumber(index))

\* getHighlightedIndex taking the first row at line 494, whether or not it
\* has an id
getHighlightedIndex_firstRow(p, sel) ==
    LET notes == p.notes
        selectedNote == p.selectedNote
        index == sel.index
    IN  IF Len(notes) = 0 THEN Null
        ELSE IF selectedNote = Null /\ ~Truthy(index)
        THEN Some(0)
        ELSE IF selectedNote # Null /\ selectedNote[1] = idAtIndex(notes, index)
        THEN index
        ELSE IF selectedNote # Null /\ findIndexOfId(notes, selectedNote[1]) > -1
        THEN Some(findIndexOfId(notes, selectedNote[1]))
        ELSE IF selectedNote # Null
        THEN Some(Min(ToNumber(index), Len(notes) - 1))
        ELSE index

\* getHighlightedIndex(props), lines 476-516; sel is this.state.selected.
\* The result is null or a number
getHighlightedIndex(p, sel) ==
    LET notes == p.notes
        selectedNote == p.selectedNote
        index == sel.index
    IN  IF Len(notes) = 0 THEN Null
        ELSE IF selectedNote = Null /\ ~Truthy(index)
        THEN IF findFirstWithId(notes) > -1 THEN Some(findFirstWithId(notes)) ELSE Null
        ELSE IF selectedNote # Null /\ selectedNote[1] = idAtIndex(notes, index)
        THEN index
        ELSE IF selectedNote # Null /\ findIndexOfId(notes, selectedNote[1]) > -1
        THEN Some(findIndexOfId(notes, selectedNote[1]))
        ELSE IF selectedNote # Null
        THEN Some(Min(ToNumber(index), Len(notes) - 1))
        ELSE index

\* UNSAFE_componentWillReceiveProps(nextProps), lines 363-395.
\* thisProps is this.props, sel is this.state.selected.  The result names
\* the state it leaves, the onSelectNote calls it made, whether it took the
\* early return of line 376, the index line 379 resolved, and whether
\* reading notes[nextIndex].id threw (a TypeError: notes[nextIndex] is
\* undefined)
componentWillReceiveProps(nextProps, thisProps, sel) ==
    LET notes == nextProps.notes
        selectedNote == nextProps.selectedNote
        index == sel.index
        done(state, calls, early, nextIndex, threw) ==
            [selected |-> state, onSelectNote |-> calls,
             early |-> early, nextIndex |-> nextIndex, threw |-> threw]
    IN  IF /\ Truthy(index)
           /\ selectedNote # Null
           /\ idAtIndex(notes, index) = selectedNote[1]
           /\ nextProps.showTrash = thisProps.showTrash
           /\ nextProps.openedTag = thisProps.openedTag
        THEN done(sel, <<>>, TRUE, Null, FALSE)
        ELSE LET nextIndex == getHighlightedIndex(nextProps, sel) IN
             IF nextIndex = Null
             THEN done([noteId |-> Null, index |-> Null], <<>>, FALSE, nextIndex, FALSE)
             ELSE IF nextIndex[1] >= Len(notes)
             THEN done(sel, <<>>, FALSE, nextIndex, TRUE)
             ELSE done([noteId |-> Some(idAtIndex(notes, nextIndex)),
                        index |-> nextIndex],
                       IF \/ selectedNote = Null
                          \/ selectedNote[1] # idAtIndex(notes, nextIndex)
                       THEN <<idAtIndex(notes, nextIndex)>>
                       ELSE <<>>,
                       FALSE, nextIndex, FALSE)

\* the body of handleShortcut(event), lines 422-465, given cmdOrCtrl; p is
\* this.props, sel is this.state.selected.  The result names the
\* onSelectNote calls, whether the event was stopped and default-prevented,
\* the value returned, and the highlightedIndex of line 422
shortcutBody(cmdOrCtrl, event, p, sel) ==
    LET notes == p.notes
        index == ToNumber(sel.index)
        highlightedIndex == getHighlightedIndex(p, sel)
        pass == [onSelectNote |-> <<>>, stopPropagation |-> FALSE,
                 preventDefault |-> FALSE, returned |-> TRUE,
                 highlightedIndex |-> highlightedIndex]
        select(id) == [onSelectNote |-> <<id>>, stopPropagation |-> TRUE,
                       preventDefault |-> TRUE, returned |-> FALSE,
                       highlightedIndex |-> highlightedIndex]
    IN  IF /\ cmdOrCtrl
           /\ event.shiftKey
           /\ (event.key = "ArrowUp" \/ toLowerCase(event.key) = "k")
        THEN IF highlightedIndex = Some(-1) THEN pass
             ELSE IF index < 0 \/ idAt(notes, index - 1) = NoId THEN pass
             ELSE select(idAt(notes, index - 1))
        ELSE IF /\ cmdOrCtrl
                /\ event.shiftKey
                /\ (event.key = "ArrowDown" \/ toLowerCase(event.key) = "j")
        THEN IF highlightedIndex = Some(-1) THEN pass
             ELSE IF index >= Len(notes) \/ idAt(notes, index + 1) = NoId THEN pass
             ELSE select(idAt(notes, index + 1))
        ELSE pass

\* handleShortcut taking the chord's modifier to be ctrlKey alone
handleShortcut_ctrlOnly(event, p, sel) ==
    shortcutBody(event.ctrlKey, event, p, sel)

\* handleShortcut(event), lines 415-466, with cmdOrCtrl of line 424
handleShortcut(event, p, sel) ==
    shortcutBody(event.ctrlKey \/ event.metaKey, event, p, sel)

(***************************************************************************)
(* The component as a state machine: it is mounted with some props, then   *)
(* receives props updates and keydown events, one handler at a time.       *)
(***************************************************************************)
\* no handler has run since the last return to the event loop
Idle == [method |-> "idle"]

\* the component right after it is mounted, lines 331-333; the middleware
\* is left in its initial state
InitNL ==
    /\ selected = [noteId |-> Null, index |-> Null]
    /\ props \in Props
    /\ shortcut = Null
    /\ effects = Idle
    /\ appNotes = Null
    /\ hasInitialized = FALSE
    /\ loads = 0
    /\ inbox = <<>>
    /\ call = NoCall
    /\ events = <<>>
    /\ NoRows
    /\ NoSession

\* React calls UNSAFE_componentWillReceiveProps(nextProps), then makes
\* nextProps this.props
ReceiveProps ==
    /\ effects = Idle
    /\ \E nextProps \in Props :
        \E r \in {componentWillReceiveProps(nextProps, props, selected)} :
        /\ selected' = r.selected
        /\ props' = IF r.threw THEN props ELSE nextProps
        /\ effects' = [method |-> "componentWillReceiveProps",
                       nextProps |-> nextProps,
                       before |-> selected,
                       sameContext |-> /\ nextProps.showTrash = props.showTrash
                                       /\ nextProps.openedTag = props.openedTag,
                       onSelectNote |-> r.onSelectNote,
                       early |-> r.early,
                       nextIndex |-> r.nextIndex,
                       threw |-> r.threw]
        /\ UNCHANGED <<shortcut>>
        /\ UNCHANGED notNL

\* the window's keydown listener runs handleShortcut(event)
KeyDown ==
    /\ effects = Idle
    /\ \E event \in KeyEvents :
        \E r \in {handleShortcut(event, props, selected)} :
        /\ shortcut' = Some(event)
        /\ effects' = [method |-> "handleShortcut",
                       onSelectNote |-> r.onSelectNote,
                       stopPropagation |-> r.stopPropagation,
                       preventDefault |-> r.preventDefault,
                       returned |-> r.returned,
                       highlightedIndex |-> r.highlightedIndex,
                       threw |-> FALSE]
        /\ UNCHANGED <<selected, props>>
        /\ UNCHANGED notNL

\* the handler has returned to the event loop; a handler that threw has
\* taken the component down
ReturnNL ==
    /\ effects # Idle
    /\ ~effects.threw
    /\ effects' = Idle
    /\ shortcut' = Null
    /\ UNCHANGED <<selected, props>>
    /\ UNCHANGED notNL

NextNL ==
    \/ ReceiveProps
    \/ KeyDown
    \/ ReturnNL

(***************************************************************************)
(* The rows of the list as state machines.  SpecCL: the store's values     *)
(* reach mapStateToProps, which calls createCompositeNoteList.  SpecRH:    *)
(* the virtualized list asks getRowHeight for the height of one row at a   *)
(* time.                                                                   *)
(***************************************************************************)
\* the middleware has handled nothing and no component is mounted
NothingElse ==
    /\ appNotes = Null
    /\ hasInitialized = FALSE
    /\ loads = 0
    /\ inbox = <<>>
    /\ call = NoCall
    /\ events = <<>>
    /\ selected = [noteId |-> Null, index |-> Null]
    /\ props = Null
    /\ shortcut = Null
    /\ effects = Idle
    /\ NoSession

\* ui.filteredNotes, ui.searchQuery and the number of matching tags,
\* before mapStateToProps has run on them
CompositeInputs ==
    [notes : NoteLists, searchQuery : Queries, tagResultsFound : TagCounts,
     rows : {Null}]

InitCL ==
    /\ NothingElse
    /\ composite \in CompositeInputs
    /\ previewCache = EmptyCache
    /\ lookup = NoLookup
    /\ lastFor = EmptyCache

\* lines 610-620
MapStateToProps ==
    /\ composite.rows = Null
    /\ composite' =
            [composite EXCEPT !.rows =
                Some(createCompositeNoteList(composite.notes,
                                             composite.searchQuery,
                                             composite.tagResultsFound))]
    /\ UNCHANGED <<mwVars, nlVars, sessionVars, previewCache, lookup, lastFor>>

\* the store changes: new values reach mapStateToProps
StateChanged ==
    /\ composite.rows # Null
    /\ composite' \in CompositeInputs
    /\ UNCHANGED <<mwVars, nlVars, sessionVars, previewCache, lookup, lastFor>>

NextCL ==
    \/ MapStateToProps
    \/ StateChanged

\* the lists getRowHeight is called with: notesWithTagSuggestions
HeightLists ==
    {<<TagSuggestionsRow, NotesHeaderRow, NoNotesRow>>}
    \cup {<<r>> : r \in HeightNotes}

InitRH ==
    /\ NothingElse
    /\ NoRows

\* one call of getRowHeight(notes, options)({index}), lines 585-589
GetRowHeight ==
    /\ lookup = NoLookup
    /\ \E notes \in HeightLists, options \in HeightOptions :
        \E index \in DOMAIN notes :
        \E r \in {getRowHeight(previewCache, notes, options, index)} :
        LET row == notes[index]
            isNote == row \notin SyntheticRows
        IN
        /\ previewCache' = r.cache
        /\ lookup' = [row |-> Some(row),
                      options |-> options,
                      height |-> r.height,
                      computed |-> r.computed,
                      cachedBefore |-> IF isNote THEN previewCache[row.id]
                                                ELSE Null,
                      lastBefore |-> IF isNote THEN lastFor[row.id] ELSE Null]
        /\ lastFor' =
                IF isNote
                THEN [lastFor EXCEPT ![row.id] =
                        Some([width |-> options.width,
                              noteDisplay |-> options.noteDisplay,
                              preview |-> getNoteTitleAndPreview(row).preview,
                              height |-> r.height])]
                ELSE lastFor
        /\ UNCHANGED <<mwVars, nlVars, sessionVars, composite>>

\* getRowHeight has returned
ReturnRH ==
    /\ lookup # NoLookup
    /\ lookup' = NoLookup
    /\ UNCHANGED <<mwVars, nlVars, sessionVars, composite, previewCache, lastFor>>

NextRH ==
    \/ GetRowHeight
    \/ ReturnRH

(***************************************************************************)
(* A session: the middleware, the worker at the other end of the channel   *)
(* and the store's ui.filteredNotes.                                       *)
(*                                                                         *)
(* SpecFC follows the filter context the worker builds from the commands   *)
(* it receives; the channel keeps their order, so the context is that of   *)
(* the commands in the order they were posted.  SpecRP follows the         *)
(* replies: each filterNotes command is numbered as it is posted, a reply  *)
(* carries the number of the command it answers (`re`, not a field of the  *)
(* real message), the worker may answer in any order or not at all, and    *)
(* ui.filteredNotes holds what was dispatched last.                        *)
(***************************************************************************)
MaxLive == 1
MaxSent == 2

\* the notes of a session of SpecRP
LiveIds == 1..MaxLive
LiveLists == {l \in NoteLists : \A i \in DOMAIN l : l[i].id \in LiveIds}
LiveIndexes == {Null} \cup {Some(i) : i \in 0..(MaxLive - 1)}

\* the actions that reach the middleware, over the given notes
StoreActions(lists, ids, indexes) ==
    {[type |-> "App.notesLoaded", notes |-> l] : l \in lists}
    \cup {[type |-> "REMOTE_NOTE_UPDATE", noteId |-> id, data |-> d] :
            id \in ids, d \in NoteData}
    \cup {[type |-> "OPEN_TAG", tag |-> [data |-> [name |-> n]]] : n \in TagNames}
    \cup {[type |-> "SELECT_TRASH"], [type |-> "SHOW_ALL_NOTES"]}
    \cup {[type |-> "SEARCH", searchQuery |-> q] : q \in Queries}
    \cup {[type |-> t, previousIndex |-> i] : t \in RebuildTypes, i \in indexes}
    \cup {[type |-> "App.authChanged"], [type |-> "OTHER"]}

\* the actions of a session of SpecFC, and of SpecRP
AllActions == StoreActions(NoteLists, NoteIds, PreviousIndexes)
LiveActions == StoreActions(LiveLists, LiveIds, LiveIndexes)

\* what updateFilter('fullSearch') can return while `action` is handled
FullSearches(action, ids) ==
    IF action.type \in RebuildTypes \cup {"App.authChanged"}
    THEN {Some(S) : S \in SUBSET ids}
    ELSE {Null}

\* the filterNotes commands among the messages a handler posted
FilterCommands(ev) ==
    SelectSeq(ev, LAMBDA e : e.kind = "post" /\ e.msg.action = "filterNotes")

\* the worker takes a filterNotes command: a field the command carries
\* replaces the one of the context, the others stay
applyFilter(ctx, msg) ==
    [openedTag |-> IF "openedTag" \in DOMAIN msg
                   THEN msg.openedTag ELSE ctx.openedTag,
     showTrash |-> IF "showTrash" \in DOMAIN msg
                   THEN msg.showTrash ELSE ctx.showTrash,
     searchQuery |-> IF "searchQuery" \in DOMAIN msg
                     THEN msg.searchQuery ELSE ctx.searchQuery]

\* the context after the commands of `cmds`, taken in order
RECURSIVE applyFilters(_, _)
applyFilters(ctx, cmds) ==
    IF cmds = <<>> THEN ctx
    ELSE applyFilters(applyFilter(ctx, Head(cmds).msg), Tail(cmds))

\* the reducer of ui.filterNotes: the store keeps the list and the hint
\* of the last dispatched action; `from` is the number of the command
\* whose reply brought the list, 0 for a synchronous rebuild
filterNotes(shown, ev, from) ==
    LET dispatched == SelectSeq(ev, LAMBDA e : e.kind = "dispatch")
    IN  IF dispatched = <<>> THEN shown
        ELSE Some([list |-> dispatched[Len(dispatched)].list,
                   previousIndex |-> dispatched[Len(dispatched)].previousIndex,
                   from |-> from])

InitFC ==
    /\ NothingElse
    /\ NoRows

\* the store dispatches an action; the middleware handles it and the
\* worker takes the commands it posted
FilterDispatch ==
    /\ call = NoCall
    /\ \E action \in AllActions :
        \E fullSearch \in FullSearches(action, NoteIds) :
        \E store \in next(action, appNotes) :
        \E ev \in {middleware(hasInitialized, action, store, fullSearch)} :
            /\ Handled(action, store, fullSearch, ev)
            /\ hasInitialized' = (hasInitialized \/ action.type = "App.notesLoaded")
            /\ context' = applyFilters(context, FilterCommands(ev))
            /\ UNCHANGED <<loads, inbox, sent, pending, filteredNotes>>
            /\ UNCHANGED <<nlVars, rowVars>>

\* the handler returns to the event loop
FilterReturn ==
    /\ call # NoCall
    /\ call' = NoCall
    /\ events' = <<>>
    /\ UNCHANGED <<appNotes, hasInitialized, loads, inbox>>
    /\ UNCHANGED notMW

NextFC ==
    \/ FilterDispatch
    \/ FilterReturn

InitRP ==
    /\ NothingElse
    /\ NoRows

\* the store dispatches an action and the middleware handles it
ReplyDispatch ==
    /\ call = NoCall
    /\ \E action \in LiveActions :
        \E fullSearch \in FullSearches(action, LiveIds) :
        \E store \in next(action, appNotes) :
        \E ev \in {middleware(hasInitialized, action, store, fullSearch)} :
        \E n \in {Len(FilterCommands(ev))} :
            /\ sent + n <= MaxSent
            /\ appNotes' = store
            /\ call' = [action |-> action, fullSearch |-> fullSearch,
                        shown |-> filteredNotes]
            /\ events' = ev
            /\ hasInitialized' = (hasInitialized \/ action.type = "App.notesLoaded")
            /\ sent' = sent + n
            /\ pending' = pending \cup ((sent + 1)..(sent + n))
            /\ filteredNotes' = filterNotes(filteredNotes, ev, 0)
            /\ UNCHANGED <<loads, inbox, context>>
            /\ UNCHANGED <<nlVars, rowVars>>

\* the worker answers one of the commands it has not answered yet
WorkerReplies ==
    /\ call = NoCall
    /\ Len(inbox) < MaxInbox
    /\ \E k \in pending, noteIds \in SUBSET LiveIds :
        /\ inbox' = Append(inbox, [action |-> "filterNotes",
                                   noteIds |-> noteIds,
                                   re |-> k])
        /\ pending' = pending \ {k}
        /\ UNCHANGED <<appNotes, hasInitialized, loads, call, events>>
        /\ UNCHANGED <<context, sent, filteredNotes>>
        /\ UNCHANGED <<nlVars, rowVars>>

\* the worker puts a message of a shape the middleware does not know on
\* the channel; it answers no command
WorkerPostsOther ==
    /\ call = NoCall
    /\ Len(inbox) < MaxInbox
    /\ inbox' = Append(inbox, [action |-> "unknown", re |-> 0])
    /\ UNCHANGED <<appNotes, hasInitialized, loads, call, events>>
    /\ UNCHANGED sessionVars
    /\ UNCHANGED <<nlVars, rowVars>>

\* the reply to a command is lost, or the worker never produces it: no
\* handler of the middleware runs
ReplyDropped ==
    /\ call = NoCall
    /\ \E k \in pending :
        /\ pending' = pending \ {k}
        /\ call' = [action |-> [type |-> "@@dropped", re |-> k],
                    fullSearch |-> Null,
                    shown |-> filteredNotes]
        /\ UNCHANGED <<appNotes, hasInitialized, loads, inbox, events>>
        /\ UNCHANGED <<context, sent, filteredNotes>>
        /\ UNCHANGED <<nlVars, rowVars>>

\* searchProcessor.onmessage runs for the oldest reply in flight
ReplyArrives ==
    /\ call = NoCall
    /\ inbox # <<>>
    /\ \E ev \in {onmessage(<<>>, appNotes, Head(inbox))} :
        /\ inbox' = Tail(inbox)
        /\ call' = [action |-> [type |-> "@@message", data |-> Head(inbox)],
                    fullSearch |-> Null,
                    shown |-> filteredNotes]
        /\ events' = ev
        /\ filteredNotes' = filterNotes(filteredNotes, ev, Head(inbox).re)
        /\ UNCHANGED <<appNotes, hasInitialized, loads>>
        /\ UNCHANGED <<context, sent, pending>>
        /\ UNCHANGED <<nlVars, rowVars>>

\* the handler returns to the event loop; the session goes on after a
\* lost reply
ReplyReturn ==
    /\ call # NoCall
    /\ call' = NoCall
    /\ events' = <<>>
    /\ UNCHANGED <<appNotes, hasInitialized, loads, inbox>>
    /\ UNCHANGED notMW

NextRP ==
    \/ ReplyDispatch
    \/ WorkerReplies
    \/ WorkerPostsOther
    \/ ReplyDropped
    \/ ReplyArrives
    \/ ReplyReturn

(***************************************************************************)
(* Specifications                                                          *)
(***************************************************************************)
\* one middleware instance; the component is not mounted
SpecMW == InitMW /\ [][NextMW]_vars

\* one mounted NoteList component; the middleware handles nothing
SpecNL == InitNL /\ [][NextNL]_vars

\* the projection of the filtered list to the rows of the list
SpecCL == InitCL /\ [][NextCL]_vars

\* the row height cache of the module
SpecRH == InitRH /\ [][NextRH]_vars

\* the middleware and the filter context of the worker
SpecFC == InitFC /\ [][NextFC]_vars

\* the middleware, the replies of the worker and ui.filteredNotes
SpecRP == InitRP /\ [][NextRP]_vars

(***************************************************************************)
(* Properties of the search middleware, stated for SpecMW                  *)
(***************************************************************************)
\* the messages the last handler posted on the channel, in order
Posted ==
    LET posts == SelectSeq(events, LAMBDA e : e.kind = "post")
    IN  [i \in DOMAIN posts |-> posts[i].msg]

\* the ui.filterNotes actions the last handler dispatched, in order
Dispatched == SelectSeq(events, LAMBDA e : e.kind = "dispatch")

\* list holds exactly the ids of the store that are in `ids`, each once,
\* in the order the store has them (nothing when there is no store)
IsLiveSelection(list, store, ids) ==
    IF store = Null THEN list = <<>>
    ELSE /\ \A k \in DOMAIN list :
               list[k] \in ids /\ \E i \in DOMAIN store : store[i] = list[k]
         /\ \A i \in DOMAIN store :
               store[i] \in ids => \E k \in DOMAIN list : list[k] = store[i]
         /\ \A k1, k2 \in DOMAIN list :
               k1 < k2 =>
                  \E i1, i2 \in DOMAIN store :
                     i1 < i2 /\ store[i1] = list[k1] /\ store[i2] = list[k2]

\* C1: a handler of App.notesLoaded that is not the first one of the
\* session posts no updateNote command, whatever notes the action carries.
C1_BulkLoadOnce ==
    (call.action.type = "App.notesLoaded" /\ loads > 1) =>
        \A i \in DOMAIN Posted : Posted[i].action # "updateNote"

\* a second App.notesLoaded carrying notes has been handled
C1_Witness ==
    /\ call.action.type = "App.notesLoaded"
    /\ loads = 2
    /\ Len(call.action.notes) > 0
    /\ Posted = <<[action |-> "filterNotes"]>>

\* C2: handling a filterNotes reply dispatches exactly one ui.filterNotes
\* action, whose list is the records of the live store with an id in the
\* reply's set, in the store's order, and which carries no selection hint;
\* nothing is posted.
C2_ReplyResolvedAgainstLiveStore ==
    (call.action.type = "@@message" /\ call.action.data.action = "filterNotes") =>
        /\ Len(events) = 1
        /\ events[1].kind = "dispatch"
        /\ IsLiveSelection(events[1].list, appNotes, call.action.data.noteIds)
        /\ events[1].previousIndex = Null

\* a reply naming every id was resolved against a store that lacks one of
\* them, and the list dispatched is not empty
C2_Witness ==
    /\ call.action.type = "@@message"
    /\ call.action.data.action = "filterNotes"
    /\ call.action.data.noteIds = NoteIds
    /\ appNotes # Null
    /\ Len(appNotes) = MaxNotes - 1
    /\ Len(Dispatched) = 1
    /\ Dispatched[1].list = appNotes
    /\ Dispatched[1].list # <<>>

\* C3: each of REMOTE_NOTE_UPDATE, OPEN_TAG, SELECT_TRASH, SHOW_ALL_NOTES
\* and SEARCH calls next, posts exactly one message (updateNote with the
\* id and data; filterNotes with the tag name; with tag none and trash
\* true; with tag none and trash false; with the query) and dispatches
\* nothing.
C3_OneCommandPerEvent ==
    LET type == call.action.type
        expect(msg) == events = <<[kind |-> "next"], [kind |-> "post", msg |-> msg]>>
    IN  /\ type = "REMOTE_NOTE_UPDATE" =>
              expect([action |-> "updateNote",
                      noteId |-> call.action.noteId,
                      data |-> call.action.data])
        /\ type = "OPEN_TAG" =>
              expect([action |-> "filterNotes",
                      openedTag |-> Some(call.action.tag.data.name)])
        /\ type = "SELECT_TRASH" =>
              expect([action |-> "filterNotes", openedTag |-> Null, showTrash |-> TRUE])
        /\ type = "SHOW_ALL_NOTES" =>
              expect([action |-> "filterNotes", openedTag |-> Null, showTrash |-> FALSE])
        /\ type = "SEARCH" =>
              expect([action |-> "filterNotes",
                      searchQuery |-> call.action.searchQuery])

\* SELECT_TRASH has been handled, with no reply in flight to wait for
C3_Witness ==
    /\ call.action.type = "SELECT_TRASH"
    /\ Len(Posted) = 1
    /\ Dispatched = <<>>
    /\ inbox = <<>>

\* C4: each of DELETE_NOTE_FOREVER, RESTORE_NOTE and TRASH_NOTE posts
\* nothing and, within its handler, dispatches exactly one list: the store
\* (as next left it) filtered by the ids the synchronous full search
\* returned, with the action's previousIndex as the selection hint.
C4_SyncRebuildWithHint ==
    call.action.type \in {"DELETE_NOTE_FOREVER", "RESTORE_NOTE", "TRASH_NOTE"} =>
        /\ Posted = <<>>
        /\ Len(events) = 2
        /\ events[1].kind = "next"
        /\ events[2].kind = "dispatch"
        /\ IsLiveSelection(events[2].list, appNotes, call.fullSearch[1])
        /\ events[2].previousIndex = call.action.previousIndex

\* TRASH_NOTE with a pre-action index has rebuilt a list that is not empty
C4_Witness ==
    /\ call.action.type = "TRASH_NOTE"
    /\ call.action.previousIndex = Some(1)
    /\ Len(Dispatched) = 1
    /\ Dispatched[1].list # <<>>
    /\ Dispatched[1].previousIndex = Some(1)

(***************************************************************************)
(* Properties of the NoteList component, stated for SpecNL                 *)
(***************************************************************************)
\* the last handler called getHighlightedIndex: line 379 or line 422
Resolved ==
    \/ effects.method = "componentWillReceiveProps" /\ ~effects.early
    \/ effects.method = "handleShortcut"

\* the props, the recorded selection and the result of that call
ResolvedProps ==
    IF effects.method = "componentWillReceiveProps" THEN effects.nextProps ELSE props
ResolvedFrom ==
    IF effects.method = "componentWillReceiveProps" THEN effects.before ELSE selected
ResolvedIndex ==
    IF effects.method = "componentWillReceiveProps"
    THEN effects.nextIndex
    ELSE effects.highlightedIndex

\* the 0-based positions of the rows of a list that have this id
PositionsOf(notes, id) == {k \in 0..(Len(notes) - 1) : notes[k + 1] = id}

\* C5: when a note is explicitly selected and its id occurs in the new,
\* non-empty list, getHighlightedIndex returns an index whose row has that
\* id: the recorded index if the row there has the id, else the first
\* index where the id is found.
C5_SelectionFollowsTheNote ==
    (/\ Resolved
     /\ ResolvedProps.selectedNote # Null
     /\ PositionsOf(ResolvedProps.notes, ResolvedProps.selectedNote[1]) # {}) =>
        LET at == PositionsOf(ResolvedProps.notes, ResolvedProps.selectedNote[1])
            previous == ResolvedFrom.index
        IN  /\ ResolvedIndex # Null
            /\ ResolvedIndex[1] \in at
            /\ IF previous # Null /\ previous[1] \in at
               THEN ResolvedIndex = previous
               ELSE \A k \in at : ResolvedIndex[1] <= k

\* the selected note was found at another index than the recorded one
C5_Witness ==
    /\ Resolved
    /\ ResolvedProps.selectedNote # Null
    /\ ResolvedFrom.index = Some(0)
    /\ ResolvedIndex = Some(1)
    /\ ResolvedProps.notes[2] = ResolvedProps.selectedNote[1]

\* C6: when a note is explicitly selected, an index is recorded and the
\* note's id does not occur in the new, non-empty list, getHighlightedIndex
\* returns min(previousIndex, length - 1).
C6_ClampToTheList ==
    (/\ Resolved
     /\ ResolvedProps.selectedNote # Null
     /\ ResolvedFrom.index # Null
     /\ Len(ResolvedProps.notes) > 0
     /\ PositionsOf(ResolvedProps.notes, ResolvedProps.selectedNote[1]) = {}) =>
        LET previousIndex == ResolvedFrom.index[1]
            last == Len(ResolvedProps.notes) - 1
        IN  ResolvedIndex = Some(IF previousIndex <= last THEN previousIndex ELSE last)

\* the recorded index lay past the end of the new list and was clamped
C6_Witness ==
    /\ Resolved
    /\ ResolvedProps.selectedNote # Null
    /\ ResolvedFrom.index # Null
    /\ Len(ResolvedProps.notes) > 0
    /\ PositionsOf(ResolvedProps.notes, ResolvedProps.selectedNote[1]) = {}
    /\ ResolvedFrom.index[1] > Len(ResolvedProps.notes) - 1
    /\ ResolvedIndex = Some(Len(ResolvedProps.notes) - 1)

\* C7: with a non-empty list, no selected note and no recorded index,
\* getHighlightedIndex returns the index of the first row with a valid id,
\* or null when no row has one; with an empty list it returns null.
C7_FirstValidRowOrNone ==
    /\ (/\ Resolved
        /\ Len(ResolvedProps.notes) > 0
        /\ ResolvedProps.selectedNote = Null
        /\ ResolvedFrom.index = Null) =>
           LET valid == {k \in 0..(Len(ResolvedProps.notes) - 1) :
                            ResolvedProps.notes[k + 1] # NoId}
           IN  IF valid = {}
               THEN ResolvedIndex = Null
               ELSE /\ ResolvedIndex # Null
                    /\ ResolvedIndex[1] \in valid
                    /\ \A k \in valid : ResolvedIndex[1] <= k
    /\ (Resolved /\ Len(ResolvedProps.notes) = 0) => ResolvedIndex = Null

\* the first row had no valid id and the second one was resolved
C7_Witness ==
    /\ Resolved
    /\ ResolvedProps.selectedNote = Null
    /\ ResolvedFrom.index = Null
    /\ Len(ResolvedProps.notes) > 1
    /\ ResolvedProps.notes[1] = NoId
    /\ ResolvedIndex = Some(1)

\* C8: on every props update, onSelectNote is called, with the id of the
\* row at the resolved index, exactly when the resolution yields an index
\* and no note is selected upstream or the selected note's id differs from
\* the id at the resolved index.
C8_SelectExactlyOnIdChange ==
    effects.method = "componentWillReceiveProps" =>
        LET notes == effects.nextProps.notes
            selectedNote == effects.nextProps.selectedNote
            resolved == getHighlightedIndex(effects.nextProps, effects.before)
            changed == /\ resolved # Null
                       /\ \/ selectedNote = Null
                          \/ selectedNote[1] # idAtIndex(notes, resolved)
        IN  effects.onSelectNote =
                IF changed THEN <<idAtIndex(notes, resolved)>> ELSE <<>>

\* C9: a move-selection chord received while the selected index is null is
\* rejected: no onSelectNote call, the event neither stopped nor
\* default-prevented, and true returned.
C9_ChordRejectedWithoutHighlight ==
    LET event == shortcut[1]
        chord == /\ (event.ctrlKey \/ event.metaKey)
                 /\ event.shiftKey
                 /\ event.key \in {"ArrowUp", "ArrowDown", "k", "K", "j", "J"}
    IN  (effects.method = "handleShortcut" /\ chord /\ selected.index = Null) =>
            /\ effects.onSelectNote = <<>>
            /\ ~effects.stopPropagation
            /\ ~effects.preventDefault
            /\ effects.returned

\* C10: for a chord received with highlighted index i, the handler passes
\* the event through when the neighbour slot is past an edge or holds no
\* valid id, and otherwise calls onSelectNote once with the neighbour's id,
\* stops propagation and prevents default.  For every event, it is stopped
\* and default-prevented if and only if a selection was requested, and an
\* event that is not the chord requests none.
C10_MoveSelection ==
    effects.method = "handleShortcut" =>
        LET event == shortcut[1]
            notes == props.notes
            modified == (event.ctrlKey \/ event.metaKey) /\ event.shiftKey
            previous == modified /\ event.key \in {"ArrowUp", "k", "K"}
            following == modified /\ event.key \in {"ArrowDown", "j", "J"}
            requested == effects.onSelectNote # <<>>
        IN  /\ ((previous \/ following) /\ selected.index # Null) =>
                  LET i == selected.index[1]
                      neighbour == IF previous THEN i - 1 ELSE i + 1
                  IN  IF \/ neighbour < 0
                         \/ neighbour >= Len(notes)
                         \/ notes[neighbour + 1] = NoId
                      THEN /\ ~requested
                           /\ effects.returned
                      ELSE /\ effects.onSelectNote = <<notes[neighbour + 1]>>
                           /\ ~effects.returned
            /\ effects.stopPropagation <=> requested
            /\ effects.preventDefault <=> requested
            /\ ~(previous \/ following) => ~requested

\* the meta chord for "next" moved the selection from row 0 to row 1
C10_Witness ==
    /\ effects.method = "handleShortcut"
    /\ shortcut[1].metaKey
    /\ ~shortcut[1].ctrlKey
    /\ shortcut[1].shiftKey
    /\ shortcut[1].key = "J"
    /\ selected.index = Some(0)
    /\ Len(props.notes) > 1
    /\ effects.onSelectNote = <<props.notes[2]>>
    /\ effects.stopPropagation
    /\ effects.preventDefault

(***************************************************************************)
(* Properties of the rows of the list, stated for SpecCL                   *)
(***************************************************************************)
\* mapStateToProps has run on the values of `composite`
Projected == composite.rows # Null
Rows == composite.rows[1]

\* C11: createCompositeNoteList(notes, query, count) returns the filtered
\* notes themselves, same order, same length, no synthetic row, whenever
\* the query is empty or the number of tag suggestions is 0, for every
\* list, the empty one included.
C11_PlainListWithoutTagResults ==
    (Projected /\ (composite.searchQuery = "" \/ composite.tagResultsFound = 0))
    => /\ Len(Rows) = Len(composite.notes)
       /\ \A i \in 1..Len(Rows) :
            Rows[i] = composite.notes[i] /\ Rows[i] \notin SyntheticRows

\* a non-empty query without tag results, over a non-empty list
C11_Witness ==
    /\ Projected
    /\ composite.searchQuery # ""
    /\ composite.tagResultsFound = 0
    /\ Len(composite.notes) = MaxNotes
    /\ Rows = composite.notes

\* C12: with a non-empty query and a non-zero count the result is the
\* tag-suggestions row, the header row, then all the filtered notes in
\* their order, or the single empty-placeholder row when there is none:
\* two rows more than a non-empty list, exactly three for an empty one.
\* The rows are a function of the three arguments alone.
C12_CompositeWithTagResults ==
    (Projected /\ composite.searchQuery # "" /\ composite.tagResultsFound # 0)
    => /\ Rows[1] = TagSuggestionsRow
       /\ Rows[2] = NotesHeaderRow
       /\ Len(composite.notes) > 0 =>
            /\ Len(Rows) = Len(composite.notes) + 2
            /\ \A i \in 1..Len(composite.notes) : Rows[i + 2] = composite.notes[i]
       /\ Len(composite.notes) = 0 =>
            /\ Len(Rows) = 3
            /\ Rows[3] = NoNotesRow

\* tag results over an empty filtered list: the placeholder row
C12_Witness ==
    /\ Projected
    /\ composite.searchQuery # ""
    /\ composite.tagResultsFound = MaxTags
    /\ composite.notes = <<>>
    /\ Rows = <<TagSuggestionsRow, NotesHeaderRow, NoNotesRow>>

(***************************************************************************)
(* Properties of the row height cache, stated for SpecRH                   *)
(***************************************************************************)
\* a getRowHeight call for a note is running or has just returned its value
LookedUpNote == lookup # NoLookup /\ lookup.row[1] \notin SyntheticRows
LookupPreview == getNoteTitleAndPreview(lookup.row[1]).preview

\* the stored entry `e` was stored for the arguments of the running call
SameArguments(e) ==
    /\ e # Null
    /\ e[1].width = lookup.options.width
    /\ e[1].noteDisplay = lookup.options.noteDisplay
    /\ e[1].preview = LookupPreview

\* C13: after any sequence of getRowHeight calls the cache entry of an id
\* holds the width, display mode and preview of the most recent call for
\* that id, with the height computed from exactly these three; a call
\* returns the stored height without computing only if the three stored
\* values equal its arguments, and otherwise computes and overwrites.
C13_CacheHoldsLastLookup ==
    /\ \A id \in NoteIds :
        /\ lastFor[id] = Null => previewCache[id] = Null
        /\ lastFor[id] # Null =>
            /\ previewCache[id] # Null
            /\ previewCache[id][1].width = lastFor[id][1].width
            /\ previewCache[id][1].noteDisplay = lastFor[id][1].noteDisplay
            /\ previewCache[id][1].preview = lastFor[id][1].preview
            /\ previewCache[id][1].height =
                    computeRowHeight(lastFor[id][1].width,
                                     lastFor[id][1].noteDisplay,
                                     lastFor[id][1].preview)
    /\ LookedUpNote =>
        /\ ~lookup.computed <=> SameArguments(lookup.cachedBefore)
        /\ ~lookup.computed =>
            /\ lookup.height = lookup.cachedBefore[1].height
            /\ previewCache[lookup.row[1].id] = lookup.cachedBefore
        /\ lookup.computed =>
            previewCache[lookup.row[1].id] =
                Some([width |-> lookup.options.width,
                      noteDisplay |-> lookup.options.noteDisplay,
                      preview |-> LookupPreview,
                      height |-> lookup.height])

\* an entry stored for another preview of the same note, at the same width
\* and display mode, is overwritten
C13_Witness ==
    /\ LookedUpNote
    /\ lookup.computed
    /\ lookup.cachedBefore # Null
    /\ lookup.cachedBefore[1].width = lookup.options.width
    /\ lookup.cachedBefore[1].noteDisplay = lookup.options.noteDisplay
    /\ lookup.cachedBefore[1].preview # LookupPreview
    /\ previewCache[lookup.row[1].id][1].preview = LookupPreview

\* C14: a getRowHeight call for a note with the width, display mode and
\* preview of the previous call for that note returns the value the
\* previous call returned and does not invoke the height computation, so
\* the computation runs at most once across the two calls.
C14_SecondLookupIsAHit ==
    (LookedUpNote /\ SameArguments(lookup.lastBefore))
    => /\ lookup.height = lookup.lastBefore[1].height
       /\ ~lookup.computed

\* the second of two such calls, for a preview that takes measuring
C14_Witness ==
    /\ LookedUpNote
    /\ SameArguments(lookup.lastBefore)
    /\ lookup.options.noteDisplay = "expanded"
    /\ LookupPreview # ""
    /\ lookup.height = lookup.lastBefore[1].height
    /\ ~lookup.computed

\* C15: for every container width <= 0, every display mode and every
\* preview, computeRowHeight returns a defined number that is >= 0: the
\* estimated number of lines never takes the height below zero.
C15_HeightNotNegative ==
    (LookedUpNote /\ lookup.computed /\ lookup.options.width <= 0)
    => /\ lookup.height \notin {NaN, Infinity}
       /\ lookup.height.num >= 0

(***************************************************************************)
(* Further properties of the search middleware, stated for SpecMW          *)
(***************************************************************************)
\* the positions in Posted of the commands that satisfy Test
PostsWhere(Test(_)) == {k \in DOMAIN Posted : Test(Posted[k])}

\* C18: the handler of the first App.notesLoaded of a session posts exactly
\* one updateNote command per note of the action, with that note's id and
\* data, then exactly one filterNotes command: on the channel every
\* updateNote is before the filterNotes.
C18_FirstLoadSendsNotesThenFilter ==
    (call.action.type = "App.notesLoaded" /\ loads = 1) =>
        LET notes == call.action.notes
            updates == PostsWhere(LAMBDA m : m.action = "updateNote")
            filters == PostsWhere(LAMBDA m : m.action = "filterNotes")
        IN  /\ Cardinality(updates) = Len(notes)
            /\ \A i \in DOMAIN notes :
                 Cardinality(PostsWhere(LAMBDA m :
                     m = [action |-> "updateNote",
                          noteId |-> notes[i].id,
                          data |-> notes[i].data])) = 1
            /\ Cardinality(filters) = 1
            /\ Posted[CHOOSE k \in filters : TRUE] = [action |-> "filterNotes"]
            /\ \A u \in updates : \A f \in filters : u < f
            /\ Cardinality(updates) + Cardinality(filters) = Len(Posted)

\* the first App.notesLoaded of a session, carrying MaxNotes notes
C18_Witness ==
    /\ call.action.type = "App.notesLoaded"
    /\ loads = 1
    /\ Len(call.action.notes) = MaxNotes
    /\ Len(Posted) = MaxNotes + 1
    /\ Posted[1].action = "updateNote"
    /\ Posted[MaxNotes + 1].action = "filterNotes"

(***************************************************************************)
(* Properties of a session, stated for SpecFC and SpecRP                   *)
(***************************************************************************)
\* C16: the filter context the posted commands build up, each command
\* replacing only the fields it carries, never has an opened tag and
\* showTrash together: after SELECT_TRASH then OPEN_TAG the tag is active
\* and the trash is not.
C16_TagAndTrashExclusive ==
    ~(context.openedTag # Null /\ context.showTrash)

\* the last handler ran for a filterNotes reply of the worker
HandledReply ==
    call.action.type = "@@message" /\ call.action.data.action = "filterNotes"

\* C17: whatever the order of commands, replies and synchronous rebuilds,
\* ui.filteredNotes is the list of the reply or rebuild handled last: every
\* reply is dispatched, none is discarded as stale, so the reply to an
\* earlier command replaces the result of a later one or of a rebuild
\* that carried a selection hint.
C17_LastHandledWins ==
    /\ HandledReply => Len(Dispatched) = 1
    /\ (call # NoCall /\ Dispatched # <<>>) =>
        /\ filteredNotes # Null
        /\ filteredNotes[1].list = Dispatched[Len(Dispatched)].list
        /\ filteredNotes[1].previousIndex =
                Dispatched[Len(Dispatched)].previousIndex
    /\ (call # NoCall /\ Dispatched = <<>>) => filteredNotes = call.shown

\* the reply to the first command arrives after the reply to the second
\* one has been put on display, and replaces its list
C17_Witness ==
    /\ HandledReply
    /\ call.action.data.re = 1
    /\ call.shown # Null
    /\ call.shown[1].from = 2
    /\ filteredNotes[1].from = 1
    /\ filteredNotes[1].list # call.shown[1].list

\* C19: the handler of App.authChanged posts nothing and dispatches
\* exactly one ui.filterNotes action, built from the synchronous full
\* search and the live store, with no selection hint, whatever hint the
\* list on display came with.
C19_AuthChangedRebuildsWithoutHint ==
    call.action.type = "App.authChanged" =>
        /\ Posted = <<>>
        /\ Len(events) = 2
        /\ events[1].kind = "next"
        /\ events[2].kind = "dispatch"
        /\ IsLiveSelection(events[2].list, appNotes, call.fullSearch[1])
        /\ events[2].previousIndex = Null
        /\ filteredNotes[1].previousIndex = Null

\* App.authChanged handled while the list on display had come with a hint
C19_Witness ==
    /\ call.action.type = "App.authChanged"
    /\ call.shown # Null
    /\ call.shown[1].previousIndex = Some(0)
    /\ Len(Dispatched) = 1
    /\ Dispatched[1].list # <<>>
    /\ filteredNotes[1].previousIndex = Null

\* the reply to a command has just been lost
ReplyLost == call.action.type = "@@dropped"

\* what a step may change: ui.filteredNotes only in a handler that
\* dispatches, the commands posted only in the handler of an action of
\* the store
QuietStep ==
    /\ filteredNotes' # filteredNotes =>
        /\ call = NoCall
        /\ \/ HandledReply'
           \/ call'.action.type \in RebuildTypes \cup {"App.authChanged"}
    /\ sent' # sent =>
        /\ call = NoCall
        /\ call'.action.type \in
                {"App.notesLoaded", "OPEN_TAG", "SELECT_TRASH",
                 "SHOW_ALL_NOTES", "SEARCH"}

\* C20: a filtered list is dispatched only by the handler of a filterNotes
\* reply and by the handlers of DELETE_NOTE_FOREVER, RESTORE_NOTE,
\* TRASH_NOTE and App.authChanged, and ui.filteredNotes changes in no other
\* step.  When a reply is lost the list on display stays, nothing is
\* dispatched and nothing is posted; a command is posted only by the
\* handler of an action of the store.
C20_DispatchOnlyOnReplyOrRebuild ==
    /\ [](Dispatched # <<>> =>
            \/ HandledReply
            \/ call.action.type \in RebuildTypes \cup {"App.authChanged"})
    /\ [](ReplyLost => events = <<>> /\ filteredNotes = call.shown)
    /\ [][QuietStep]_vars

\* the reply to the last command is lost while a list is on display and
\* nothing else is pending or in flight: the list is still there
C20_Witness ==
    /\ ReplyLost
    /\ call.action.re = MaxSent
    /\ pending = {}
    /\ inbox = <<>>
    /\ filteredNotes # Null
    /\ filteredNotes[1].list # <<>>
    /\ filteredNotes = call.shown

\* the last handler ran for a message that is not a filterNotes reply
HandledOther ==
    call.action.type = "@@message" /\ call.action.data.action # "filterNotes"

\* C21: a message of the channel whose action is not filterNotes is
\* ignored: its handler dispatches nothing and posts nothing, and leaves
\* ui.filteredNotes and hasInitialized as they were.
C21_UnknownMessageIgnored ==
    /\ [](HandledOther => events = <<>> /\ filteredNotes = call.shown)
    /\ [][HandledOther' =>
            /\ hasInitialized' = hasInitialized
            /\ filteredNotes' = filteredNotes
            /\ appNotes' = appNotes]_vars

\* such a message handled after the notes were loaded, while a list that
\* is not empty is on display
C21_Witness ==
    /\ HandledOther
    /\ hasInitialized
    /\ filteredNotes # Null
    /\ filteredNotes[1].list # <<>>
    /\ filteredNotes = call.shown
    /\ events = <<>>

\* C22: getHighlightedIndex returns null or an index inside the list it
\* was given, whatever selection was recorded and whatever note is
\* selected, so that componentWillReceiveProps never reads the id of a row
\* past the end of the list.
C22_HighlightWithinList ==
    /\ Resolved =>
           \/ ResolvedIndex = Null
           \/ /\ 0 <= ResolvedIndex[1]
              /\ ResolvedIndex[1] < Len(ResolvedProps.notes)
    /\ effects.method = "componentWillReceiveProps" => ~effects.threw

\* the recorded selection is {noteId: null, index: null} or names the row
\* at its index in the list of the last props update
SelectionNamesItsRow ==
    \/ selected = [noteId |-> Null, index |-> Null]
    \/ /\ selected.index # Null
       /\ selected.noteId # Null
       /\ selected.index[1] < Len(effects.nextProps.notes)
       /\ effects.nextProps.notes[selected.index[1] + 1] = selected.noteId[1]

\* C23: after every props update that componentWillReceiveProps has
\* processed, the early return included, the recorded selection is
\* {noteId: null, index: null} or names the row at its index in the list
\* of that update.
C23_SelectionNamesItsRow ==
    (effects.method = "componentWillReceiveProps" /\ ~effects.threw) =>
        SelectionNamesItsRow

\* what does hold: the updates that run to a setState leave a selection
\* that names its row
SelectionNamesItsRowAfterSetState ==
    (/\ effects.method = "componentWillReceiveProps"
     /\ ~effects.early
     /\ ~effects.threw) => SelectionNamesItsRow

\* the last handler was the middleware's, for an action of the store
HandledAction == call.action.type \notin {"@@idle", "@@message"}

\* C24: for an action of any type the middleware calls next exactly once,
\* before it posts a command or dispatches a list, and returns what next
\* returned; a list it rebuilds synchronously is resolved against the
\* store as next left it; an action of a type it does not handle posts
\* nothing and dispatches nothing.
C24_NextFirstAndResultReturned ==
    HandledAction =>
        /\ Len(events) >= 1
        /\ events[1].kind = "next"
        /\ \A i \in 2..Len(events) : events[i].kind \in {"post", "dispatch"}
        /\ call.returned = call.result
        /\ (Dispatched # <<>>) =>
              /\ call.action.type \in RebuildTypes \cup {"App.authChanged"}
              /\ \A k \in DOMAIN Dispatched :
                    IsLiveSelection(Dispatched[k].list, appNotes, call.fullSearch[1])
        /\ call.action.type = "OTHER" => events = called

\* DELETE_NOTE_FOREVER whose full search still names a note that next has
\* removed from the store: the list dispatched after next leaves it out,
\* and the handler returns the action that next returned
C24_Witness ==
    /\ call.action.type = "DELETE_NOTE_FOREVER"
    /\ appNotes # Null
    /\ \E id \in call.fullSearch[1] : \A i \in DOMAIN appNotes : appNotes[i] # id
    /\ Len(events) = 2
    /\ events[1].kind = "next"
    /\ events[2].kind = "dispatch"
    /\ events[2].list # <<>>
    /\ call.result = Some(call.action)
    /\ call.returned = Some(call.action)

====
